---- MODULE Spec2Model ----
(***************************************************************************)
(* Model of the image generation pipeline of the Pixology backend:         *)
(*   controllers/imageController.generateImage        (src/unnamed/part_003)*)
(*   services/ImageGenerationService                  (src/unnamed/part_001)*)
(*   services/GCPDatabaseService                      (src/unnamed/part_002)*)
(*   services/GCPStorageService          (src/src/services/UserService.ts)  *)
(* Every request is a Node.js async handler: the code between two awaits    *)
(* runs atomically, so there is one action per await point.                 *)
(***************************************************************************)
EXTENDS Integers, Sequences, FiniteSets, TLC

(* ------------------------------ bounds -------------------------------- *)
\* requests the server receives in one run
MaxRequests == 2
\* records the images collection can hold when the server starts and handles
\* one request at a time
MaxSeed == 3
\* records it can hold when the server starts and handles requests concurrently
MaxSeedConcurrent == 1
\* the clock runs over 0..MaxTime
MaxTime == 1
\* clock ticks in one calendar day
TicksPerDay == 2
\* request handlers that can be in flight at the same time
NumReqs == 2
\* the clock runs over 0..MaxCallTime while a method is called directly
MaxCallTime == 2
\* direct calls of hasReachedDailyLimit in a row
MaxCalls == 2
\* requests of the one user whose quota is followed
MaxQuotaRequests == 4
\* Google logins that can be in progress at the same time
NumLogins == 2
\* Google logins of one run
MaxLogins == 3

(* ------------------------- program constants -------------------------- *)
\* config.imageGeneration.maxImagesPerUserPerDay, which the deployment sets with
\* MAX_IMAGES_PER_USER_PER_DAY (50 when unset)
maxImagesPerUserPerDay == 2
\* config.imageGeneration.defaultWidth / defaultHeight
defaultWidth == 1024
defaultHeight == 1024
\* the limit of getImageHistory when the query gives none
defaultHistoryLimit == 50
\* byte length of the decoded placeholder PNG uploaded by generateImage
placeholderSize == 70

\* uuidv4 values: opaque names, drawn in turn so that none is drawn twice. Their
\* order as document ids is the order of the documents in the collection.
Ids == 1..(MaxSeed + MaxRequests)
Reqs == 1..NumReqs
Users == {"u1", "u2"}
\* who else sends a request: a client that is not logged in
\* (req.isAuthenticated() is false), and a session whose user has no id
Anonymous == "anonymous"
WithoutId == ""

\* the bounds of isLength on the prompt in validateImageGeneration
minPromptLength == 3
maxPromptLength == 1000
\* the bounds of isInt on the dimensions in validateImageGeneration
minDimension == 256
maxDimension == 2048

\* Strings are sequences of tokens so that concatenation is Sequences' \o; a
\* prompt is a sequence of characters.
sunset == <<"s", "u", "n", "s", "e", "t">>
\* a prompt of white space only: a space, a line feed and a tab
blank == <<" ", "\n", "\t">>
Prompts == {sunset, blank}
\* req.body.prompt: <<>> is undefined, <<p>> is the string p
PromptInputs == {<<>>} \cup {<<p>> : p \in Prompts}
\* styleParams: <<>> is undefined, <<sp>> is an object sp with optional fields
StyleInputs == {<<>>}

\* req.query.limit of a history request, parsed: 0 stands for absent or NaN
HistoryLimits == {0, 1}

\* messages of the errors the external services throw
ModelErrors == {"model unavailable", "api key rejected"}
DbError == "firestore unavailable"
NoCandidateError == "No image generated from Gemini API"
Base64UploadError == "Base64 image upload failed"
FileDeletionError == "File deletion failed"
UserDeletionError == "User deletion failed"
GenerationFailedError == "Image generation failed"

VARIABLES
    now,       \* the server clock
    images,    \* the images collection: its documents in document-id order
    blobs,     \* the bucket: set of stored objects
    nextId,    \* uuidv4 values already drawn for image ids
    nextBlob,  \* uuidv4 values already drawn for file names
    budget,    \* requests still to come
    slots,     \* handlers the server runs at the same time
    req,       \* per handler: its position and its locals
    call,      \* a direct call of one method of a service: arguments, results
    env,       \* what the requests of this run carry and whether reads can fail
    userDocs,  \* the users collection: its documents in document-id order
    login      \* per Google login in progress: its position and its locals

vars == <<now, images, blobs, nextId, nextBlob, budget, slots, req, call, env,
          userDocs, login>>

(* ------------------------------ helpers ------------------------------- *)
\* today.setHours(0, 0, 0, 0)
StartOfDay(t) == t - (t % TicksPerDay)

\* a creation time on the day before the server started
Yesterday == StartOfDay(0) - 1

\* the first n elements of a sequence
FirstN(docs, n) == SubSeq(docs, 1, IF Len(docs) < n THEN Len(docs) ELSE n)

\* mutant: the query has no where clause
findMany_all(coll, value, limit) ==
    IF limit # 0 THEN FirstN(coll, limit) ELSE coll

\* GCPDatabaseService.findMany: where(userId == value).limit(limit) with no
\* orderBy, which Firestore answers in ascending document-id order
findMany(coll, value, limit) ==
    LET docs == SelectSeq(coll, LAMBDA doc : doc.userId = value)
    IN  IF limit # 0 THEN FirstN(docs, limit) ELSE docs

\* the filter of hasReachedDailyLimit: createdAt >= today
todayImages(fetched, today) ==
    SelectSeq(fetched, LAMBDA img : img.createdAt >= today)

\* mutant: the comparison is off by one
hasReached_offByOne(coll, userId, today) ==
    Len(todayImages(findMany(coll, userId, maxImagesPerUserPerDay + 1), today))
      >= maxImagesPerUserPerDay - 1

\* mutant: the limit itself is still allowed
hasReached_strict(coll, userId, today) ==
    Len(todayImages(findMany(coll, userId, maxImagesPerUserPerDay + 1), today))
      > maxImagesPerUserPerDay

\* hasReachedDailyLimit, try branch (the read succeeded)
hasReached(coll, userId, today) ==
    Len(todayImages(findMany(coll, userId, maxImagesPerUserPerDay + 1), today))
      >= maxImagesPerUserPerDay

\* mutant: the catch branch fails closed
hasReachedOnError_closed == TRUE

\* hasReachedDailyLimit, catch branch (the read threw): fail open
hasReachedOnError == FALSE

(* --------------------------- pure functions --------------------------- *)
\* the line terminators of JavaScript, which "." of a regular expression does
\* not match; a character with no escape in a string is named by its code point
LineTerminators == {"\n", "\r", "U+2028", "U+2029"}
\* the white space String.prototype.trim and \s of validator's trim remove:
\* tab, vertical tab, form feed, space, no-break space, byte order mark and the
\* space separators, with the line terminators
WhiteSpace ==
    {"\t", "U+000B", "\f", " ", "U+00A0", "U+FEFF", "U+1680", "U+2000",
     "U+2001", "U+2002", "U+2003", "U+2004", "U+2005", "U+2006", "U+2007",
     "U+2008", "U+2009", "U+200A", "U+202F", "U+205F", "U+3000"}
    \cup LineTerminators

\* String.prototype.trim on a sequence of characters
RECURSIVE TrimLeft(_)
TrimLeft(s) ==
    IF s # <<>> /\ Head(s) \in WhiteSpace THEN TrimLeft(Tail(s)) ELSE s
RECURSIVE TrimRight(_)
TrimRight(s) ==
    IF s # <<>> /\ s[Len(s)] \in WhiteSpace
    THEN TrimRight(SubSeq(s, 1, Len(s) - 1)) ELSE s
\* mutant: nothing is trimmed
Trim_none(s) == s

Trim(s) == TrimRight(TrimLeft(s))

\* validateImageGeneration, body('prompt'): the value as a string (undefined is
\* the empty string), sanitized by trim() and written back to the request
sanitizedPrompt(given) == Trim(IF given = <<>> THEN <<>> ELSE given[1])

\* the entries of errors.array() for the messages of one field
withField(field, messages) ==
    [k \in 1..Len(messages) |-> [field |-> field, message |-> messages[k]]]

\* validateImageGeneration, body('styleParams.dimensions.width') and
\* .height: the errors of the validators that fail; an absent field passes
dimensionErrors(styleParams) ==
    LET d == IF styleParams # <<>> /\ "dimensions" \in DOMAIN styleParams[1]
             THEN styleParams[1].dimensions ELSE [x \in {} |-> 0]
        Bad(f) == f \in DOMAIN d /\ (d[f] < minDimension \/ d[f] > maxDimension)
    IN  (IF Bad("width")
         THEN withField("styleParams.dimensions.width",
                        <<"Width must be between 256 and 2048">>)
         ELSE <<>>)
        \o (IF Bad("height")
            THEN withField("styleParams.dimensions.height",
                           <<"Height must be between 256 and 2048">>)
            ELSE <<>>)

\* validateImageGeneration, body('prompt'): the messages of the validators
\* that fail on the sanitized value
promptErrors(given) ==
    LET value == sanitizedPrompt(given) IN
    (IF Len(value) = 0 THEN <<"Prompt is required">> ELSE <<>>)
    \o (IF Len(value) < minPromptLength \/ Len(value) > maxPromptLength
        THEN <<"Prompt must be between 3 and 1000 characters">> ELSE <<>>)

\* Array.prototype.join
RECURSIVE Join(_, _)
Join(clauses, sep) ==
    IF clauses = <<>> THEN <<>>
    ELSE IF Len(clauses) = 1 THEN Head(clauses)
    ELSE Head(clauses) \o sep \o Join(Tail(clauses), sep)

\* a field of an object that is present and truthy (non-empty string)
Truthy(obj, f) == f \in DOMAIN obj /\ obj[f] # <<>>

\* mutant: the mood clause comes before the color scheme clause
buildEnhancedPrompt_moodFirst(basePrompt, styleParams) ==
    IF styleParams = <<>> THEN basePrompt
    ELSE LET sp == styleParams[1]
             m1 == IF Truthy(sp, "style")
                   THEN << <<"in ">> \o sp.style \o <<" style">> >> ELSE <<>>
             m2 == IF Truthy(sp, "colorScheme")
                   THEN << <<"with ">> \o sp.colorScheme \o <<" color scheme">> >>
                   ELSE <<>>
             m3 == IF Truthy(sp, "mood")
                   THEN << sp.mood \o <<" mood">> >> ELSE <<>>
             m4 == IF "modifiers" \in DOMAIN sp /\ Len(sp.modifiers) > 0
                   THEN sp.modifiers ELSE <<>>
             styleModifiers == m1 \o m3 \o m2 \o m4
         IN  IF Len(styleModifiers) > 0
             THEN basePrompt \o <<", ">> \o Join(styleModifiers, <<", ">>)
             ELSE basePrompt

\* ImageGenerationService.buildEnhancedPrompt
buildEnhancedPrompt(basePrompt, styleParams) ==
    IF styleParams = <<>> THEN basePrompt
    ELSE LET sp == styleParams[1]
             m1 == IF Truthy(sp, "style")
                   THEN << <<"in ">> \o sp.style \o <<" style">> >> ELSE <<>>
             m2 == IF Truthy(sp, "colorScheme")
                   THEN << <<"with ">> \o sp.colorScheme \o <<" color scheme">> >>
                   ELSE <<>>
             m3 == IF Truthy(sp, "mood")
                   THEN << sp.mood \o <<" mood">> >> ELSE <<>>
             m4 == IF "modifiers" \in DOMAIN sp /\ Len(sp.modifiers) > 0
                   THEN sp.modifiers ELSE <<>>
             styleModifiers == m1 \o m2 \o m3 \o m4
         IN  IF Len(styleModifiers) > 0
             THEN basePrompt \o <<", ">> \o Join(styleModifiers, <<", ">>)
             ELSE basePrompt

\* mutant: the defaults are taken unless both width and height are given
resolveDimensions_bothOrNone(styleParams) ==
    LET d == IF styleParams # <<>> /\ "dimensions" \in DOMAIN styleParams[1]
             THEN styleParams[1].dimensions ELSE [x \in {} |-> 0]
    IN  IF {"width", "height"} \subseteq DOMAIN d /\ d.width # 0 /\ d.height # 0
        THEN [width |-> d.width, height |-> d.height]
        ELSE [width |-> defaultWidth, height |-> defaultHeight]

\* styleParams?.dimensions?.width || defaultWidth, and the same for height
resolveDimensions(styleParams) ==
    LET d == IF styleParams # <<>> /\ "dimensions" \in DOMAIN styleParams[1]
             THEN styleParams[1].dimensions ELSE [x \in {} |-> 0]
    IN  [width  |-> IF "width" \in DOMAIN d /\ d.width # 0
                    THEN d.width ELSE defaultWidth,
         height |-> IF "height" \in DOMAIN d /\ d.height # 0
                    THEN d.height ELSE defaultHeight]

\* the base64 alphabet: the value of a character is its position minus one
Base64Alphabet ==
    <<"A", "B", "C", "D", "E", "F", "G", "H", "I", "J", "K", "L", "M",
      "N", "O", "P", "Q", "R", "S", "T", "U", "V", "W", "X", "Y", "Z",
      "a", "b", "c", "d", "e", "f", "g", "h", "i", "j", "k", "l", "m",
      "n", "o", "p", "q", "r", "s", "t", "u", "v", "w", "x", "y", "z",
      "0", "1", "2", "3", "4", "5", "6", "7", "8", "9", "+", "/">>
\* A character is a UTF-16 code unit: a printable ASCII character is written
\* as itself (the grave accent excepted), any other code unit by its name,
\* "U+" and four hexadecimal digits. codeUnit(hi, lo) is the name of the code unit with the bytes hi, lo.
HexDigits ==
    <<"0", "1", "2", "3", "4", "5", "6", "7", "8", "9",
      "A", "B", "C", "D", "E", "F">>
hexByte(b) == HexDigits[(b \div 16) + 1] \o HexDigits[(b % 16) + 1]
codeUnit(hi, lo) == "U+" \o hexByte(hi) \o hexByte(lo)
\* the printable ASCII characters, from U+0020 to U+007E
Ascii ==
    <<" ", "!", "\"", "#", "$", "%", "&", "'", "(", ")", "*", "+", ",", "-",
      ".", "/", "0", "1", "2", "3", "4", "5", "6", "7", "8", "9", ":", ";",
      "<", "=", ">", "?", "@", "A", "B", "C", "D", "E", "F", "G", "H", "I",
      "J", "K", "L", "M", "N", "O", "P", "Q", "R", "S", "T", "U", "V", "W",
      "X", "Y", "Z", "[", "\\", "]", "^", "_", "U+0060", "a", "b", "c", "d", "e",
      "f", "g", "h", "i", "j", "k", "l", "m", "n", "o", "p", "q", "r", "s",
      "t", "u", "v", "w", "x", "y", "z", "{", "|", "}", "~">>
\* The decoder looks a character up by the low byte of its code unit: the
\* character that byte stands for. A character written as itself is its own
\* low byte. codeUnitsEnding[lo] holds the code units with the low byte lo.
codeUnitsEnding ==
    [lo \in 0..255 |-> {codeUnit(hi, lo) : hi \in 0..255}]
lowByte(c) ==
    IF Len(c) # 6 THEN c
    ELSE LET los == {lo \in 0..255 : c \in codeUnitsEnding[lo]}
         IN  IF los = {} THEN c
             ELSE LET lo == CHOOSE l \in los : TRUE
                  IN  IF lo \in 32..126 THEN Ascii[lo - 31]
                      ELSE codeUnit(0, lo)
\* the characters of the URL-safe alphabet are decoded as well
isBase64Char(c) ==
    \/ lowByte(c) \in {"-", "_"}
    \/ \E i \in DOMAIN Base64Alphabet : Base64Alphabet[i] = lowByte(c)
unbase64(c) ==
    CASE lowByte(c) = "-" -> 62
      [] lowByte(c) = "_" -> 63
      [] OTHER -> (CHOOSE i \in DOMAIN Base64Alphabet :
                       Base64Alphabet[i] = lowByte(c)) - 1

\* the part of a string before its first "=" (a character whose low byte is
\* that of "="), where decoding stops
RECURSIVE UpToPadding(_)
UpToPadding(str) ==
    IF str = <<>> THEN <<>>
    ELSE IF lowByte(Head(str)) = "=" THEN <<>>
    ELSE <<Head(str)>> \o UpToPadding(Tail(str))

\* the bytes of a sequence of 6-bit values: three for each full group of
\* four, one for two left over, two for three left over
RECURSIVE bytesOf(_)
bytesOf(v) ==
    IF Len(v) < 2 THEN <<>>
    ELSE LET b1 == (v[1] * 4 + (v[2] \div 16)) % 256 IN
         IF Len(v) = 2 THEN <<b1>>
         ELSE LET b2 == ((v[2] % 16) * 16 + (v[3] \div 4)) % 256 IN
              IF Len(v) = 3 THEN <<b1, b2>>
              ELSE <<b1, b2, ((v[3] % 4) * 64 + v[4]) % 256>>
                   \o bytesOf(SubSeq(v, 5, Len(v)))

\* Buffer.from(str, 'base64'): characters outside the alphabet are skipped
bufferFromBase64(str) ==
    LET legal == SelectSeq(UpToPadding(str), isBase64Char)
    IN  bytesOf([k \in 1..Len(legal) |-> unbase64(legal[k])])

\* the strings "data:", ";base64," and "image/png"
DataPrefix == <<"d", "a", "t", "a", ":">>
Base64Marker == <<";", "b", "a", "s", "e", "6", "4", ",">>
imagePng == <<"i", "m", "a", "g", "e", "/", "p", "n", "g">>

startsWith(str, prefix) ==
    Len(str) >= Len(prefix) /\ SubSeq(str, 1, Len(prefix)) = prefix

\* base64Data.match(/^data:([^;]+);base64,(.+)$/): <<>> stands for null,
\* <<mime, payload>> for the two groups of a match
dataUrlMatch(str) ==
    IF ~startsWith(str, DataPrefix) THEN <<>>
    ELSE LET rest == SubSeq(str, Len(DataPrefix) + 1, Len(str))
             semis == {k \in 1..Len(rest) : rest[k] = ";"}
         IN  IF semis = {} THEN <<>>
             ELSE LET p == CHOOSE k \in semis : \A j \in semis : k <= j
                      mime == SubSeq(rest, 1, p - 1)
                      tail == SubSeq(rest, p, Len(rest))
                      payload == SubSeq(tail, Len(Base64Marker) + 1, Len(tail))
                  IN  IF /\ mime # <<>>
                         /\ startsWith(tail, Base64Marker)
                         /\ payload # <<>>
                         /\ \A k \in 1..Len(payload) :
                               payload[k] \notin LineTerminators
                      THEN <<mime, payload>>
                      ELSE <<>>

\* GCPStorageService.uploadBase64Image up to its call of uploadFile: the MIME
\* type and the buffer it hands over
uploadBase64Image(base64Data) ==
    LET matches == IF startsWith(base64Data, DataPrefix)
                   THEN dataUrlMatch(base64Data) ELSE <<>>
    IN  [mimeType |-> IF matches # <<>> THEN matches[1] ELSE imagePng,
         buffer |-> bufferFromBase64(IF matches # <<>> THEN matches[2]
                                     ELSE base64Data)]

\* A file name is kept split at its last dot: ext is path.extname of it, ""
\* when the name has no extension. generateImage names its file
\* generated-{imageId}.png.
generatedFileName(imageId) ==
    [stem |-> <<"generated-", imageId>>, ext |-> ".png"]
\* uploadFile: path.extname(fileName) || '.png'
fileExtension(fileName) == IF fileName.ext # "" THEN fileName.ext ELSE ".png"

\* mutant: every object is stored under one folder
filePath_shared(userId, n, fileName) ==
    <<"users/", "shared", "/images/", n, fileExtension(fileName)>>

\* GCPStorageService.uploadFile: users/{userId}/images/{uuid}{ext}
filePath(userId, n, fileName) ==
    <<"users/", userId, "/images/", n, fileExtension(fileName)>>
publicUrl(path) == <<"publicUrlBase">> \o path

\* mutant: the result carries no public URL
UploadResult_noUrl(path, size, mimeType) ==
    [publicUrl |-> <<>>, bucket |-> "bucketName", path |-> path,
     size |-> size, mimeType |-> mimeType]

\* the UploadResult returned by uploadFile
UploadResult(path, size, mimeType) ==
    [publicUrl |-> publicUrl(path), bucket |-> "bucketName", path |-> path,
     size |-> size, mimeType |-> mimeType]

\* mutant: the record keeps the prompt that was sent to the model
completedRecord_enhanced(id, userId, prompt, styleParams, up, t) ==
    [id |-> id, userId |-> userId,
     prompt |-> buildEnhancedPrompt(prompt, styleParams),
     styleParams |-> styleParams,
     gcsUrl |-> up.publicUrl, gcsBucket |-> up.bucket, gcsPath |-> up.path,
     fileSize |-> up.size, mimeType |-> up.mimeType,
     dimensions |-> resolveDimensions(styleParams),
     status |-> "completed", createdAt |-> t, updatedAt |-> t]

\* the document generateImage writes on success; create() stamps the dates
completedRecord(id, userId, prompt, styleParams, up, t) ==
    [id |-> id, userId |-> userId, prompt |-> prompt, styleParams |-> styleParams,
     gcsUrl |-> up.publicUrl, gcsBucket |-> up.bucket, gcsPath |-> up.path,
     fileSize |-> up.size, mimeType |-> up.mimeType,
     dimensions |-> resolveDimensions(styleParams),
     status |-> "completed", createdAt |-> t, updatedAt |-> t]

\* mutant: the failure record keeps the path of the upload
failedRecord_withRef(id, userId, prompt, styleParams, msg, t) ==
    [id |-> id, userId |-> userId, prompt |-> prompt, styleParams |-> styleParams,
     gcsPath |-> filePath(userId, id, generatedFileName(id)),
     status |-> "failed", errorMessage |-> msg,
     createdAt |-> t, updatedAt |-> t]

\* the document the catch block of generateImage writes
failedRecord(id, userId, prompt, styleParams, msg, t) ==
    [id |-> id, userId |-> userId, prompt |-> prompt, styleParams |-> styleParams,
     status |-> "failed", errorMessage |-> msg,
     createdAt |-> t, updatedAt |-> t]

\* the positions of the documents with the given id
Positions(coll, id) == {k \in 1..Len(coll) : coll[k].id = id}

\* mutant: the write is acknowledged but not applied
create_dropped(coll, id, data, rank) == coll

\* GCPDatabaseService.create: doc(id).set(data) replaces the document with that
\* id or adds one; rank is the number of documents whose id sorts before the
\* new uuid
create(coll, id, data, rank) ==
    IF Positions(coll, id) # {}
    THEN [k \in 1..Len(coll) |-> IF coll[k].id = id THEN data ELSE coll[k]]
    ELSE SubSeq(coll, 1, rank) \o <<data>> \o SubSeq(coll, rank + 1, Len(coll))

\* GCPDatabaseService.findById: <<>> stands for null
findById(coll, id) ==
    IF Positions(coll, id) = {} THEN <<>>
    ELSE <<coll[CHOOSE k \in Positions(coll, id) : TRUE]>>

\* mutant: the object is not kept
storeObject_lost(bucket, object) == bucket

\* mutant: the stored object replaces what the bucket held
storeObject_replace(bucket, object) == {object}

\* file.save: the object is in the bucket
storeObject(bucket, object) == bucket \cup {object}
\* file.delete: no object is left under the path
deleteObject(bucket, path) == {b \in bucket : b.path # path}

\* mutant: the same value is drawn again
uuidv4_reuse(drawn) == 1

\* uuidv4(): a value never drawn before
uuidv4(drawn) == drawn + 1

\* mutant: the error of the failed failure-record write is thrown instead
thrownAfterCatch_escalate(saved) ==
    IF saved THEN GenerationFailedError ELSE DbError

\* the error generateImage throws from its catch block, whether or not the
\* failure record could be saved
thrownAfterCatch(saved) == GenerationFailedError

\* the ImageGenerationResult generateImage returns
generationResult(r) ==
    [imageId |-> r.imageId, imageUrl |-> r.upload[1].publicUrl,
     dimensions |-> resolveDimensions(r.styleParams),
     fileSize |-> r.upload[1].size, prompt |-> r.prompt,
     styleParams |-> r.styleParams]

\* mutant: the response names another id than the attempt's
response201_otherId(r) ==
    [status |-> 201, error |-> "",
     image |-> <<[id |-> r.imageId + 1, gcsUrl |-> r.upload[1].publicUrl,
                  prompt |-> r.prompt, styleParams |-> r.styleParams,
                  dimensions |-> resolveDimensions(r.styleParams)]>>]

\* the responses of the controller
response201(r) ==
    [status |-> 201, error |-> "",
     image |-> <<[id |-> r.imageId, gcsUrl |-> r.upload[1].publicUrl,
                  prompt |-> r.prompt, styleParams |-> r.styleParams,
                  dimensions |-> resolveDimensions(r.styleParams)]>>]
response400 == [status |-> 400, error |-> "Prompt is required", image |-> <<>>]
\* the response of handleValidationErrors
validationFailed(errors) ==
    [status |-> 400, error |-> "Validation failed", image |-> <<>>,
     details |-> errors]
\* the answer of isAuthenticated and the answer of a controller without
\* req.user.id
responseUnauthorized ==
    [status |-> 401, image |-> <<>>, error |-> "Unauthorized. Please log in."]
response401 ==
    [status |-> 401, image |-> <<>>, error |-> "User not authenticated"]
response429 ==
    [status |-> 429, image |-> <<>>,
     error |-> "Daily image generation limit reached. Please try again tomorrow."]
response500(e) ==
    [status |-> 500, image |-> <<>>,
     error |-> "Image generation failed. Please try again."]

\* the responses of getImageHistory and getImageById
historyResponse(docs) ==
    [status |-> 200, error |-> "", images |-> docs, count |-> Len(docs)]
historyFailed ==
    [status |-> 500, error |-> "Failed to retrieve image history"]
imageResponse(found) ==
    [status |-> 200, error |-> "", image |-> found]
imageNotFound == [status |-> 404, error |-> "Image not found"]
imageForbidden ==
    [status |-> 403,
     error |-> "Forbidden. You do not have access to this image."]
imageFailed == [status |-> 500, error |-> "Failed to retrieve image"]

(* ------------------------------- state -------------------------------- *)
Idle ==
    [pc |-> "idle", route |-> "", userId |-> "", given |-> <<>>,
     prompt |-> <<>>,
     styleParams |-> <<>>,
     today |-> 0, read |-> "none", reached |-> FALSE,
     imageId |-> 0, sent |-> <<>>, modelOutcome |-> "none", response |-> <<>>,
     called |-> {}, modelCalls |-> 0,
     stamp |-> 0, blob |-> 0, upload |-> <<>>, errorMessage |-> "",
     saved |-> "none", result |-> <<>>, thrown |-> "", wanted |-> 0,
     limit |-> 0, resp |-> <<>>]

\* no method is called directly: the server handles requests
NoCall == [fn |-> "none"]

\* a run of the server: requests of any user, without style parameters, whose
\* quota read may fail
AnyRequest ==
    [users |-> Users \cup {Anonymous, WithoutId}, styles |-> StyleInputs, reads |-> BOOLEAN,
     writes |-> BOOLEAN]

\* no Google login is in progress and no user document is stored
Logins == 1..NumLogins
LoginIdle ==
    [pc |-> "idle", googleId |-> "", name |-> "", userId |-> "",
     stamp |-> 0, user |-> <<>>, outcome |-> ""]
NoLogin ==
    /\ userDocs = <<>>
    /\ login = [p \in Logins |-> LoginIdle]

\* The collection outlives the server: when the server starts it holds the
\* records of earlier runs, here completed records of one user, each created
\* yesterday or earlier today, with the objects they refer to.
SeedUser == "u1"
SeedTimes == {Yesterday, 0}
SeedRecord(id, t) ==
    completedRecord(id, SeedUser, sunset, <<>>,
                    UploadResult(filePath(SeedUser, id, generatedFileName(id)),
                                 placeholderSize, "image/png"), t)
SeedBlob(id) ==
    [path |-> filePath(SeedUser, id, generatedFileName(id)),
     contentType |-> "image/png",
     public |-> TRUE, userId |-> SeedUser, imageId |-> id]

Init ==
    /\ now = 0
    /\ slots \in 1..NumReqs
    /\ \E k \in 0..(IF slots = 1 THEN MaxSeed ELSE MaxSeedConcurrent) :
       \E times \in [1..k -> SeedTimes] :
         /\ images = [i \in 1..k |-> SeedRecord(i, times[i])]
         /\ blobs = {SeedBlob(i) : i \in 1..k}
         /\ nextId = k
         /\ nextBlob = k
    /\ budget = MaxRequests
    /\ req = [r \in Reqs |-> Idle]
    /\ call = NoCall
    /\ env = AnyRequest
    /\ NoLogin

\* mutant: the handler never sends its answer
finish_noAnswer(q, resp) == [q EXCEPT !.resp = <<resp>>]

\* the handler has answered: its locals are gone, its answer stays
finish(q, resp) ==
    [q EXCEPT !.pc = "done", !.today = 0, !.stamp = 0, !.limit = 0,
              !.resp = <<resp>>]

(* ------------------------------ actions ------------------------------- *)
\* the clock advances
Tick ==
    /\ now < (IF call = NoCall THEN MaxTime ELSE MaxCallTime)
    /\ now' = now + 1
    /\ UNCHANGED <<images, blobs, nextId, nextBlob, budget, slots, req, call,
                 env, userDocs, login>>

\* POST /generate/image up to its first await: validateImageGeneration and
\* handleValidationErrors, then controller generateImage: the prompt check,
\* then hasReachedDailyLimit computes today's midnight and issues the read.
\* Handlers are interchangeable: a request takes the first free one.
Receive(r) ==
    /\ r <= slots
    /\ req[r].pc \in {"idle", "done"}
    /\ \A r2 \in Reqs : r2 < r => req[r2].pc \notin {"idle", "done"}
    /\ budget > 0
    /\ budget' = budget - 1
    /\ \E u \in env.users, given \in PromptInputs, s \in env.styles :
         LET p == sanitizedPrompt(given)
             errors == withField("prompt", promptErrors(given))
                       \o dimensionErrors(s)
             received == [Idle EXCEPT !.route = "generate", !.userId = u,
                                      !.given = given,
                                      !.prompt = p, !.styleParams = s]
         IN  req' = [req EXCEPT ![r] =
                IF u = Anonymous
                THEN finish([Idle EXCEPT !.route = "generate", !.userId = u],
                            responseUnauthorized)
                ELSE IF errors # <<>>
                THEN finish(received, validationFailed(errors))
                ELSE IF u = WithoutId
                THEN finish(received, response401)
                ELSE IF Len(Trim(p)) = 0
                THEN finish(received, response400)
                ELSE [received EXCEPT !.pc = "quota_read",
                                      !.today = StartOfDay(now)]]
    /\ UNCHANGED <<now, images, blobs, nextId, nextBlob, slots, call,
                 env, userDocs, login>>

\* the read of hasReachedDailyLimit returns or throws; the controller answers
\* 429 or calls generateImage, which draws the image id, builds the prompt and
\* calls the model
QuotaReturn(r) ==
    /\ req[r].pc = "quota_read"
    /\ \E ok \in env.reads :
         LET q == req[r]
             reached == IF ok THEN hasReached(images, q.userId, q.today)
                        ELSE hasReachedOnError
             seen == [q EXCEPT !.read = IF ok THEN "ok" ELSE "failed",
                               !.reached = reached]
         IN IF reached
            THEN /\ req' = [req EXCEPT ![r] = finish(seen, response429)]
                 /\ UNCHANGED nextId
            ELSE /\ nextId' = nextId + 1
                 /\ req' = [req EXCEPT ![r] =
                      [seen EXCEPT !.pc = "model", !.imageId = uuidv4(nextId),
                            !.sent = buildEnhancedPrompt(q.prompt, q.styleParams),
                            !.called = {"model"}, !.modelCalls = 1]]
    /\ UNCHANGED <<now, images, blobs, nextBlob, budget, slots, call,
                 env, userDocs, login>>

\* mutant: the candidates are not checked
hasCandidate_always(response) == TRUE

\* isAuthenticated and controller getImageHistory up to its await:
\* parseInt(req.query.limit) || 50, then getUserImageHistory issues findMany
GetImageHistory(r) ==
    /\ r <= slots
    /\ req[r].pc \in {"idle", "done"}
    /\ \A r2 \in Reqs : r2 < r => req[r2].pc \notin {"idle", "done"}
    /\ budget > 0
    /\ budget' = budget - 1
    /\ \E u \in env.users, l \in HistoryLimits :
         LET received == [Idle EXCEPT !.route = "history", !.userId = u] IN
         req' = [req EXCEPT ![r] =
            IF u = Anonymous THEN finish(received, responseUnauthorized)
            ELSE IF u = WithoutId THEN finish(received, response401)
            ELSE [received EXCEPT
                    !.pc = "images_query",
                    !.limit = IF l # 0 THEN l ELSE defaultHistoryLimit]]
    /\ UNCHANGED <<now, images, blobs, nextId, nextBlob, slots, call,
                 env, userDocs, login>>

\* findMany of getUserImageHistory returns or throws; the controller answers
GetImageHistoryReturn(r) ==
    /\ req[r].pc = "images_query"
    /\ \E ok \in BOOLEAN :
         LET q == req[r] IN
         req' = [req EXCEPT ![r] =
            finish(q, IF ok
                      THEN historyResponse(findMany(images, q.userId, q.limit))
                      ELSE historyFailed)]
    /\ UNCHANGED <<now, images, blobs, nextId, nextBlob, budget, slots, call,
                 env, userDocs, login>>

\* isAuthenticated and controller getImageById up to its await: findById is
\* issued
GetImageById(r) ==
    /\ r <= slots
    /\ req[r].pc \in {"idle", "done"}
    /\ \A r2 \in Reqs : r2 < r => req[r2].pc \notin {"idle", "done"}
    /\ budget > 0
    /\ budget' = budget - 1
    /\ \E u \in env.users, imageId \in Ids :
         LET received == [Idle EXCEPT !.route = "image", !.userId = u] IN
         req' = [req EXCEPT ![r] =
            IF u = Anonymous THEN finish(received, responseUnauthorized)
            ELSE IF u = WithoutId THEN finish(received, response401)
            ELSE [received EXCEPT !.pc = "images_get", !.wanted = imageId]]
    /\ UNCHANGED <<now, images, blobs, nextId, nextBlob, slots, call,
                 env, userDocs, login>>

\* findById returns or throws; the controller answers 404, 403 or the record
GetImageByIdReturn(r) ==
    /\ req[r].pc = "images_get"
    /\ \E ok \in BOOLEAN :
         LET q == req[r]
             image == findById(images, q.wanted)
         IN  req' = [req EXCEPT ![r] =
                finish(q, IF ~ok THEN imageFailed
                          ELSE IF image = <<>> THEN imageNotFound
                          ELSE IF image[1].userId # q.userId THEN imageForbidden
                          ELSE imageResponse(image[1]))]
    /\ UNCHANGED <<now, images, blobs, nextId, nextBlob, budget, slots, call,
                 env, userDocs, login>>

\* response.candidates && response.candidates.length > 0
hasCandidate(response) ==
    "candidates" \in DOMAIN response /\ Len(response.candidates) > 0

\* what model.generateContent can answer with
ModelResponses ==
    {[promptFeedback |-> "blocked"], [candidates |-> <<>>],
     [candidates |-> <<"image">>]}

\* mutant: after a failure the attempt goes on to write the completed record
catchBlock_resume(q, msg, t) ==
    [q EXCEPT !.pc = "save_completed", !.errorMessage = msg, !.stamp = t,
              !.called = q.called \cup {"create"}]

\* entry of the catch block of generateImage: the failure record is built with
\* error.message and databaseService.create is called
catchBlock(q, msg, t) ==
    [q EXCEPT !.pc = "save_failed", !.errorMessage = msg, !.stamp = t,
              !.called = q.called \cup {"create"}]

\* mutant: the model is called again after its first failure
modelFailed_retry(q, msg, t) ==
    IF q.modelCalls < 2
    THEN [q EXCEPT !.pc = "model", !.modelCalls = q.modelCalls + 1]
    ELSE catchBlock(q, msg, t)

\* the model call threw, or its response has no candidate and generateImage
\* throws: the catch block runs
modelFailed(q, msg, t) == catchBlock(q, msg, t)

\* model.generateContent returns or throws; with a candidate generateImage goes
\* on to uploadBase64Image -> uploadFile -> file.save
ModelReturn(r) ==
    /\ req[r].pc = "model"
    /\ LET q == req[r] IN
       \/ \E msg \in ModelErrors :
            req' = [req EXCEPT ![r] =
                modelFailed([q EXCEPT !.modelOutcome = "throws"], msg, now)]
       \/ \E response \in ModelResponses :
            req' = [req EXCEPT ![r] =
                LET got == [q EXCEPT !.modelOutcome = "returns",
                                     !.response = <<response>>]
                IN  IF hasCandidate(response)
                    THEN [got EXCEPT !.pc = "upload_save",
                                     !.called = q.called \cup {"upload"}]
                    ELSE modelFailed(got, NoCandidateError, now)]
    /\ UNCHANGED <<now, images, blobs, nextId, nextBlob, budget, slots, call,
                 env, userDocs, login>>

\* uploadFile: file.save returns (the object is stored) or throws
UploadSave(r) ==
    /\ req[r].pc = "upload_save"
    /\ LET q == req[r] IN
       \/ /\ nextBlob' = nextBlob + 1
          /\ blobs' = storeObject(blobs,
                [path |-> filePath(q.userId, uuidv4(nextBlob),
                                   generatedFileName(q.imageId)),
                 contentType |-> "image/png", public |-> TRUE,
                 userId |-> q.userId, imageId |-> q.imageId])
          /\ req' = [req EXCEPT ![r] =
                [q EXCEPT !.pc = "upload_public", !.blob = uuidv4(nextBlob)]]
       \/ /\ req' = [req EXCEPT ![r] = catchBlock(q, Base64UploadError, now)]
          /\ UNCHANGED <<blobs, nextBlob>>
    /\ UNCHANGED <<now, images, nextId, budget, slots, call,
                 env, userDocs, login>>

\* uploadFile: file.makePublic returns or throws
UploadMakePublic(r) ==
    /\ req[r].pc = "upload_public"
    /\ LET q == req[r] IN
       \/ req' = [req EXCEPT ![r] = [q EXCEPT !.pc = "upload_metadata"]]
       \/ req' = [req EXCEPT ![r] = catchBlock(q, Base64UploadError, now)]
    /\ UNCHANGED <<now, images, blobs, nextId, nextBlob, budget, slots, call,
                 env, userDocs, login>>

\* uploadFile: file.getMetadata returns or throws; on return generateImage
\* resolves the dimensions and calls databaseService.create
UploadGetMetadata(r) ==
    /\ req[r].pc = "upload_metadata"
    /\ LET q == req[r] IN
       \/ req' = [req EXCEPT ![r] =
              [q EXCEPT !.pc = "save_completed", !.stamp = now,
                        !.upload =
                            <<UploadResult(filePath(q.userId, q.blob,
                                               generatedFileName(q.imageId)),
                                           placeholderSize, "image/png")>>,
                        !.called = q.called \cup {"create"}]]
       \/ req' = [req EXCEPT ![r] = catchBlock(q, Base64UploadError, now)]
    /\ UNCHANGED <<now, images, blobs, nextId, nextBlob, budget, slots, call,
                 env, userDocs, login>>

\* the create of the completed record returns (201) or throws (catch block)
SaveCompleted(r) ==
    /\ req[r].pc = "save_completed"
    /\ LET q == req[r] IN
       \/ /\ TRUE \in env.writes
          /\ \E rank \in 0..Len(images) :
                images' = create(images, q.imageId,
                    completedRecord(q.imageId, q.userId, q.prompt, q.styleParams,
                                    q.upload[1], q.stamp), rank)
          /\ req' = [req EXCEPT ![r] =
                finish([q EXCEPT !.saved = "completed",
                                 !.result = <<generationResult(q)>>],
                       response201(q))]
       \/ /\ FALSE \in env.writes
          /\ req' = [req EXCEPT ![r] = catchBlock(q, DbError, now)]
          /\ UNCHANGED images
    /\ UNCHANGED <<now, blobs, nextId, nextBlob, budget, slots, call,
                 env, userDocs, login>>

\* the create of the failure record returns or throws (logged only); either way
\* generateImage throws and the controller answers 500
SaveFailed(r) ==
    /\ req[r].pc = "save_failed"
    /\ LET q == req[r] IN
       \/ /\ TRUE \in env.writes
          /\ \E rank \in 0..Len(images) :
                images' = create(images, q.imageId,
                    failedRecord(q.imageId, q.userId, q.prompt, q.styleParams,
                                 q.errorMessage, q.stamp), rank)
          /\ req' = [req EXCEPT ![r] =
                finish([q EXCEPT !.saved = "failed",
                                 !.thrown = thrownAfterCatch(TRUE)],
                       response500(thrownAfterCatch(TRUE)))]
       \/ /\ FALSE \in env.writes
          /\ req' = [req EXCEPT ![r] =
                finish([q EXCEPT !.saved = "lost",
                                 !.thrown = thrownAfterCatch(FALSE)],
                       response500(thrownAfterCatch(FALSE)))]
          /\ UNCHANGED images
    /\ UNCHANGED <<now, blobs, nextId, nextBlob, budget, slots, call,
                 env, userDocs, login>>

Next ==
    \/ Tick
    \/ \E r \in Reqs : Receive(r)
    \/ \E r \in Reqs : QuotaReturn(r)
    \/ \E r \in Reqs : ModelReturn(r)
    \/ \E r \in Reqs : UploadSave(r)
    \/ \E r \in Reqs : UploadMakePublic(r)
    \/ \E r \in Reqs : UploadGetMetadata(r)
    \/ \E r \in Reqs : SaveCompleted(r)
    \/ \E r \in Reqs : SaveFailed(r)
    \/ \E r \in Reqs : GetImageHistory(r)
    \/ \E r \in Reqs : GetImageHistoryReturn(r)
    \/ \E r \in Reqs : GetImageById(r)
    \/ \E r \in Reqs : GetImageByIdReturn(r)

Spec == Init /\ [][Next]_vars

\* every external call awaited by the request in the first handler returns
\* or throws in the end; nothing is assumed of the calls of the others
CallsSettle(r) ==
    /\ WF_vars(QuotaReturn(r))
    /\ WF_vars(ModelReturn(r))
    /\ WF_vars(UploadSave(r))
    /\ WF_vars(UploadMakePublic(r))
    /\ WF_vars(UploadGetMetadata(r))
    /\ WF_vars(SaveCompleted(r))
    /\ WF_vars(SaveFailed(r))
    /\ WF_vars(GetImageHistoryReturn(r))
    /\ WF_vars(GetImageByIdReturn(r))

\* the server handles requests concurrently
LiveInit == Init /\ slots = NumReqs

LiveSpec == LiveInit /\ [][Next]_vars /\ CallsSettle(1)

(* --------------------- requests with style parameters ------------------ *)
\* values of StyleParams.dimensions: objects with a width, a height, both or
\* neither; 0 is a value the validation rejects
DimensionObjects ==
    {[width |-> 512, height |-> 768], [width |-> 512], [height |-> 768],
     [x \in {} |-> 0], [width |-> 0, height |-> 768]}
\* req.body.styleParams: undefined, or an object with or without a style and
\* with or without dimensions
StyledInputs ==
    {<<>>, <<[x \in {} |-> 0]>>, <<[style |-> <<"oil">>]>>}
    \cup {<<[dimensions |-> d]>> : d \in DimensionObjects}
    \cup {<<[style |-> <<"oil">>, dimensions |-> d]>> : d \in DimensionObjects}

\* one request with or without style parameters reaches a server that starts
\* on an empty collection
StyleInit ==
    /\ now = 0
    /\ images = <<>> /\ blobs = {}
    /\ nextId = 0 /\ nextBlob = 0
    /\ budget = 1 /\ slots = 1
    /\ req = [r \in Reqs |-> Idle]
    /\ call = NoCall
    /\ env = [users |-> Users, styles |-> StyledInputs, reads |-> BOOLEAN,
              writes |-> BOOLEAN]
    /\ NoLogin

StyleSpec == StyleInit /\ [][Next]_vars

(* --------------------------- Google login ----------------------------- *)
\* profile.id and profile.displayName of the accounts that log in; an account
\* can change its display name between two logins
GoogleIds == {"g1", "g2"}
ProfileNames == {"Ann", "Ann B."}
\* profile.emails[0].value
profileEmail(googleId) == IF googleId = "g1" THEN "ann@mail" ELSE "bob@mail"

\* mutant: the document is keyed by the display name
newUserId_name(userData) == userData.name

\* createUser: const userId = userData.googleId
newUserId(userData) == userData.googleId

\* createUser: newUser, which createUser also returns; t is the new Date() of
\* the call; tokens and picture are left out
newUser(userData, t) ==
    [id |-> newUserId(userData), googleId |-> userData.googleId,
     email |-> userData.email, name |-> userData.name,
     createdAt |-> t, lastLoginAt |-> t, status |-> "active", role |-> "user"]

\* GCPDatabaseService.create: the document written is {...data, createdAt,
\* updatedAt}, both dates taken when set() is issued
stamped(data, t) == [createdAt |-> t, updatedAt |-> t] @@ data

\* GCPDatabaseService.findOne: where(googleId == value).limit(1), <<>> for null
findOne(coll, value) ==
    LET ks == {k \in 1..Len(coll) : coll[k].googleId = value}
    IN  IF ks = {} THEN <<>>
        ELSE <<coll[CHOOSE k \in ks : \A k2 \in ks : k <= k2]>>

\* GCPDatabaseService.update: doc(id).update({...data, updatedAt}) merges the
\* fields into the document
update(coll, id, data) ==
    [k \in 1..Len(coll) |-> IF coll[k].id = id THEN data @@ coll[k] ELSE coll[k]]

\* GCPDatabaseService.delete: doc(id).delete() leaves no document under the id
RECURSIVE delete(_, _)
delete(coll, id) ==
    IF coll = <<>> THEN <<>>
    ELSE IF Head(coll).id = id THEN delete(Tail(coll), id)
    ELSE <<Head(coll)>> \o delete(Tail(coll), id)

\* the verify callback has called done
loginDone(l, outcome, user) ==
    [l EXCEPT !.pc = "done", !.stamp = 0, !.outcome = outcome, !.user = user]

\* Google calls back: the verify callback starts and awaits findByGoogleId
VerifyCallback(p) ==
    /\ login[p].pc \in {"idle", "done"}
    /\ budget > 0
    /\ budget' = budget - 1
    /\ \E g \in GoogleIds, n \in ProfileNames :
         login' = [login EXCEPT ![p] =
            [LoginIdle EXCEPT !.pc = "find", !.googleId = g, !.name = n]]
    /\ UNCHANGED <<now, images, blobs, nextId, nextBlob, slots, req, call,
                 env, userDocs>>

\* findByGoogleId of the verify callback returns or throws: no user, the
\* callback calls createUser, which awaits its own findByGoogleId; a user, it
\* calls updateUser with lastLoginAt: new Date(), which awaits update
StrategyFind(p) ==
    /\ login[p].pc = "find"
    /\ \E ok \in BOOLEAN :
         LET l == login[p]
             user == findOne(userDocs, l.googleId)
         IN  login' = [login EXCEPT ![p] =
                IF ~ok THEN loginDone(l, "error", <<>>)
                ELSE IF user = <<>> THEN [l EXCEPT !.pc = "create_find"]
                ELSE [l EXCEPT !.pc = "update", !.userId = user[1].id,
                               !.stamp = now]]
    /\ UNCHANGED <<now, images, blobs, nextId, nextBlob, budget, slots, req,
                 call, env, userDocs>>

\* findByGoogleId of createUser returns or throws: an existing user, createUser
\* calls updateUser; none, it awaits create. The dates of the write are taken
\* here, when the write is issued
CreateUserFind(p) ==
    /\ login[p].pc = "create_find"
    /\ \E ok \in BOOLEAN :
         LET l == login[p]
             existingUser == findOne(userDocs, l.googleId)
         IN  login' = [login EXCEPT ![p] =
                IF ~ok THEN loginDone(l, "error", <<>>)
                ELSE IF existingUser = <<>>
                     THEN [l EXCEPT !.pc = "create_set", !.stamp = now]
                ELSE [l EXCEPT !.pc = "update", !.userId = existingUser[1].id,
                               !.stamp = now]]
    /\ UNCHANGED <<now, images, blobs, nextId, nextBlob, budget, slots, req,
                 call, env, userDocs>>

\* create of createUser returns or throws: doc(userId).set writes the whole
\* document, replacing the one stored under that id; createUser returns
\* newUser
CreateUserSet(p) ==
    /\ login[p].pc = "create_set"
    /\ LET l == login[p]
           userData == [googleId |-> l.googleId, name |-> l.name,
                        email |-> profileEmail(l.googleId)]
       IN  \/ /\ \E rank \in 0..Len(userDocs) :
                    userDocs' = create(userDocs, newUserId(userData),
                                       stamped(newUser(userData, l.stamp),
                                               l.stamp),
                                       rank)
              /\ login' = [login EXCEPT ![p] =
                    loginDone(l, "created", <<newUser(userData, l.stamp)>>)]
           \/ /\ login' = [login EXCEPT ![p] = loginDone(l, "error", <<>>)]
              /\ UNCHANGED userDocs
    /\ UNCHANGED <<now, images, blobs, nextId, nextBlob, budget, slots, req,
                 call, env>>

\* update of updateUser returns or throws (it throws when no document has the
\* id); updateUser then awaits findById
UpdateUserUpdate(p) ==
    /\ login[p].pc = "update"
    /\ LET l == login[p] IN
       \/ /\ Positions(userDocs, l.userId) # {}
          /\ userDocs' = update(userDocs, l.userId,
                [name |-> l.name, lastLoginAt |-> l.stamp,
                 updatedAt |-> l.stamp])
          /\ login' = [login EXCEPT ![p] =
                [l EXCEPT !.pc = "update_find", !.stamp = 0]]
       \/ /\ login' = [login EXCEPT ![p] = loginDone(l, "error", <<>>)]
          /\ UNCHANGED userDocs
    /\ UNCHANGED <<now, images, blobs, nextId, nextBlob, budget, slots, req,
                 call, env>>

\* findById of updateUser returns or throws; the callback calls done
UpdateUserFind(p) ==
    /\ login[p].pc = "update_find"
    /\ \E ok \in BOOLEAN :
         LET l == login[p]
             updatedUser == findById(userDocs, l.userId)
         IN  login' = [login EXCEPT ![p] =
                IF ~ok \/ updatedUser = <<>> THEN loginDone(l, "error", <<>>)
                ELSE loginDone(l, "updated", updatedUser)]
    /\ UNCHANGED <<now, images, blobs, nextId, nextBlob, budget, slots, req,
                 call, env, userDocs>>

\* The methods of the services that write to the users collection and that
\* no route calls: UserService.deleteUser, UserService.updateLastLogin and
\* GCPDatabaseService.delete. One such call is in progress at a time, beside
\* the logins; env.calls holds the methods that are called in a run.
ServiceCalls == {"deleteUser", "updateLastLogin", "delete"}
serviceCall(fn, id, t) ==
    [fn |-> fn, pc |-> "await", userId |-> id, stamp |-> t, thrown |-> ""]
serviceReturns(c, thrown) ==
    [c EXCEPT !.pc = "done", !.stamp = 0, !.thrown = thrown]
\* the method is one of the run, no other call is in progress and the run
\* has calls left
CanCall(fn) ==
    /\ fn \in env.calls
    /\ IF call.fn = "none" THEN TRUE ELSE call.pc = "done"
    /\ budget > 0

\* deleteUser is called and awaits update({status: 'deleted'}); the date of
\* the update is taken here
DeleteUser ==
    /\ CanCall("deleteUser")
    /\ budget' = budget - 1
    /\ \E id \in GoogleIds : call' = serviceCall("deleteUser", id, now)
    /\ UNCHANGED <<now, images, blobs, nextId, nextBlob, slots, req, env,
                 userDocs, login>>

\* update of deleteUser returns, or throws (as it does when no document has
\* the id) and deleteUser throws its own error
DeleteUserReturn ==
    /\ call.fn = "deleteUser" /\ call.pc = "await"
    /\ \/ /\ Positions(userDocs, call.userId) # {}
          /\ userDocs' = update(userDocs, call.userId,
                [status |-> "deleted", updatedAt |-> call.stamp])
          /\ call' = serviceReturns(call, "")
       \/ /\ call' = serviceReturns(call, UserDeletionError)
          /\ UNCHANGED userDocs
    /\ UNCHANGED <<now, images, blobs, nextId, nextBlob, budget, slots, req,
                 env, login>>

\* updateLastLogin is called and awaits update({lastLoginAt: new Date()})
UpdateLastLogin ==
    /\ CanCall("updateLastLogin")
    /\ budget' = budget - 1
    /\ \E id \in GoogleIds : call' = serviceCall("updateLastLogin", id, now)
    /\ UNCHANGED <<now, images, blobs, nextId, nextBlob, slots, req, env,
                 userDocs, login>>

\* update of updateLastLogin returns or throws; the error is logged and
\* updateLastLogin returns
UpdateLastLoginReturn ==
    /\ call.fn = "updateLastLogin" /\ call.pc = "await"
    /\ \/ /\ Positions(userDocs, call.userId) # {}
          /\ userDocs' = update(userDocs, call.userId,
                [lastLoginAt |-> call.stamp, updatedAt |-> call.stamp])
       \/ UNCHANGED userDocs
    /\ call' = serviceReturns(call, "")
    /\ UNCHANGED <<now, images, blobs, nextId, nextBlob, budget, slots, req,
                 env, login>>

\* GCPDatabaseService.delete is called on the users collection and awaits
\* doc(id).delete()
Delete ==
    /\ CanCall("delete")
    /\ budget' = budget - 1
    /\ \E id \in GoogleIds : call' = serviceCall("delete", id, now)
    /\ UNCHANGED <<now, images, blobs, nextId, nextBlob, slots, req, env,
                 userDocs, login>>

\* doc(id).delete() returns, the document removed if there was one, or throws
\* and delete throws the error on
DeleteReturn ==
    /\ call.fn = "delete" /\ call.pc = "await"
    /\ \/ /\ userDocs' = delete(userDocs, call.userId)
          /\ call' = serviceReturns(call, "")
       \/ /\ call' = serviceReturns(call, DbError)
          /\ UNCHANGED userDocs
    /\ UNCHANGED <<now, images, blobs, nextId, nextBlob, budget, slots, req,
                 env, login>>

\* the users collection is empty or holds the documents of accounts that
\* logged in before, each stored under its Google id; documents are removed
\* in some runs and in others not
LoginInit ==
    /\ now = 0 /\ images = <<>> /\ blobs = {} /\ nextId = 0 /\ nextBlob = 0
    /\ budget = MaxLogins /\ slots = 1
    /\ req = [r \in Reqs |-> Idle]
    /\ call = NoCall
    /\ \E c \in {ServiceCalls \ {"delete"}, ServiceCalls} :
         env = AnyRequest @@ [calls |-> c]
    /\ \E known \in SUBSET GoogleIds :
         \E docs \in [1..Cardinality(known) -> known] :
           /\ \A i, j \in DOMAIN docs : docs[i] = docs[j] => i = j
           /\ userDocs = [k \in DOMAIN docs |->
                [stamped(newUser([googleId |-> docs[k], name |-> "Ann",
                                  email |-> profileEmail(docs[k])], Yesterday),
                         Yesterday)
                 EXCEPT !.id = docs[k]]]
    /\ login = [p \in Logins |-> LoginIdle]

LoginNext ==
    \/ Tick
    \/ \E p \in Logins : VerifyCallback(p)
    \/ \E p \in Logins : StrategyFind(p)
    \/ \E p \in Logins : CreateUserFind(p)
    \/ \E p \in Logins : CreateUserSet(p)
    \/ \E p \in Logins : UpdateUserUpdate(p)
    \/ \E p \in Logins : UpdateUserFind(p)
    \/ DeleteUser
    \/ DeleteUserReturn
    \/ UpdateLastLogin
    \/ UpdateLastLoginReturn
    \/ Delete
    \/ DeleteReturn

LoginSpec == LoginInit /\ [][LoginNext]_vars

(* ---------------------- the quota of one user ------------------------- *)
\* the requests of one user on one day, starting with no record; no quota
\* read fails. Either they are handled one at a time and record writes may
\* fail, or up to NumReqs are handled at a time and every record write succeeds
QuotaInit ==
    /\ now = 0 /\ images = <<>> /\ blobs = {} /\ nextId = 0 /\ nextBlob = 0
    /\ budget = MaxQuotaRequests
    /\ slots \in 1..NumReqs
    /\ req = [r \in Reqs |-> Idle]
    /\ call = NoCall
    /\ \E w \in {{TRUE}, BOOLEAN} :
         /\ w = BOOLEAN => slots = 1
         /\ env = [users |-> {SeedUser}, styles |-> StyleInputs,
                   reads |-> {TRUE}, writes |-> w]
    /\ NoLogin

\* the generation requests alone: the two read routes write nothing
QuotaNext ==
    \/ Tick
    \/ \E r \in Reqs : Receive(r)
    \/ \E r \in Reqs : QuotaReturn(r)
    \/ \E r \in Reqs : ModelReturn(r)
    \/ \E r \in Reqs : UploadSave(r)
    \/ \E r \in Reqs : UploadMakePublic(r)
    \/ \E r \in Reqs : UploadGetMetadata(r)
    \/ \E r \in Reqs : SaveCompleted(r)
    \/ \E r \in Reqs : SaveFailed(r)

QuotaSpec == QuotaInit /\ [][QuotaNext]_vars

(* ------------------- direct calls of service methods ------------------- *)
\* values of the string fields of StyleParams: "" and a non-empty string
StyleStrings == {<<>>, <<"oil">>}
\* values of StyleParams.modifiers: arrays of strings, "" among them
ModifierLists ==
    {<<>>, << <<"4k">> >>, << <<"4k">>, <<"hdr">> >>, << <<"hdr">>, <<"4k">> >>,
     << <<>>, <<"4k">> >>}
StringFields == {"style", "colorScheme", "mood"}
StyleFields == StringFields \cup {"modifiers"}
\* the StyleParams objects: every field is optional
StyleObjects ==
    LET strings == UNION {[D -> StyleStrings] : D \in SUBSET StringFields}
    IN  strings \cup {("modifiers" :> m) @@ sp : sp \in strings,
                                                 m \in ModifierLists}
\* the arguments of buildEnhancedPrompt
BuildCalls ==
    {[fn |-> "buildEnhancedPrompt", basePrompt |-> p, styleParams |-> s,
      returned |-> <<>>] :
        p \in {sunset, <<"a", ",", " ", "b">>},
        s \in {<<>>} \cup {<<sp>> : sp \in StyleObjects}}

\* the parts the arguments of uploadBase64Image are put together from
imageJpeg == <<"i", "m", "a", "g", "e", "/", "j", "p", "e", "g">>
UploadPrefixes == {DataPrefix, <<>>, <<"D", "A", "T", "A", ":">>}
UploadMimes == {imageJpeg, imagePng, <<>>}
UploadMarkers == {Base64Marker, <<",">>}
UploadPayloads ==
    {<<"A", "A", "A", "A">>, <<"Q", "U", "J", "D">>, <<"Q", "U", "I", "=">>,
     <<"Q", "U", "J", "D", "\n", "Q", "U", "J", "D">>,
     <<"Q", "U", "J", "D", "\n">>, <<>>,
     <<"-", "_", "8", "=">>, <<"Q", "U", "-", "J", "D">>,
     <<"Q", "U", "U+0142", "J", "D">>, <<"Q", "U", "U+013D", "J", "D">>}
\* file names with and without an extension
FileNames ==
    {[stem |-> <<"a">>, ext |-> ".png"], [stem |-> <<"a">>, ext |-> ".jpg"],
     [stem |-> <<"a">>, ext |-> ""]}
\* the arguments of uploadBase64Image, with the parts of base64Data, and the
\* locals of the call
UploadCalls ==
    {[fn |-> "uploadBase64Image", pc |-> "decode",
      base64Data |-> prefix \o mime \o marker \o payload,
      prefix |-> prefix, mime |-> mime, marker |-> marker, payload |-> payload,
      fileName |-> name, userId |-> SeedUser, imageId |-> 1,
      decoded |-> <<>>, blob |-> 0, returned |-> <<>>, thrown |-> ""] :
        prefix \in UploadPrefixes, mime \in UploadMimes,
        marker \in UploadMarkers, payload \in UploadPayloads,
        name \in FileNames}

\* the state when a method of a service is called directly: no request is
\* being handled
CallInit ==
    /\ now = 0
    /\ images = <<>> /\ blobs = {}
    /\ nextId = 0 /\ nextBlob = 0
    /\ budget = 0 /\ slots = 1
    /\ req = [r \in Reqs |-> Idle]
    /\ call \in BuildCalls \cup UploadCalls
    /\ env = AnyRequest
    /\ NoLogin

\* the state when hasReachedDailyLimit is called directly: the collection
\* holds the records of earlier runs and nothing writes to it
GateCalls ==
    {[fn |-> "hasReachedDailyLimit", userId |-> u, pc |-> "ready",
      today |-> 0, answers |-> <<>>] : u \in Users}
GateInit ==
    /\ now = 0
    /\ \E k \in 0..MaxSeed :
       \E times \in [1..k -> SeedTimes] :
         /\ images = [i \in 1..k |-> SeedRecord(i, times[i])]
         /\ blobs = {SeedBlob(i) : i \in 1..k}
         /\ nextId = k
         /\ nextBlob = k
    /\ budget = 0 /\ slots = 1
    /\ req = [r \in Reqs |-> Idle]
    /\ call \in GateCalls
    /\ env = AnyRequest
    /\ NoLogin

\* hasReachedDailyLimit up to its await: today's midnight is computed and the
\* read is issued
HasReachedDailyLimit ==
    /\ call.fn = "hasReachedDailyLimit" /\ call.pc = "ready"
    /\ Len(call.answers) < MaxCalls
    /\ call' = [call EXCEPT !.pc = "reading", !.today = StartOfDay(now)]
    /\ UNCHANGED <<now, images, blobs, nextId, nextBlob, budget, slots, req,
                 env, userDocs, login>>

\* the read returns or throws, and hasReachedDailyLimit answers
HasReachedDailyLimitReturn ==
    /\ call.fn = "hasReachedDailyLimit" /\ call.pc = "reading"
    /\ \E ok \in BOOLEAN :
         call' = [call EXCEPT !.pc = "ready", !.today = 0,
                    !.answers = Append(call.answers,
                       [today |-> call.today,
                        read |-> IF ok THEN "ok" ELSE "failed",
                        reached |-> IF ok
                                    THEN hasReached(images, call.userId,
                                                    call.today)
                                    ELSE hasReachedOnError])]
    /\ UNCHANGED <<now, images, blobs, nextId, nextBlob, budget, slots, req,
                 env, userDocs, login>>

\* buildEnhancedPrompt returns
BuildEnhancedPrompt ==
    /\ call.fn = "buildEnhancedPrompt" /\ call.returned = <<>>
    /\ call' = [call EXCEPT !.returned =
                  <<buildEnhancedPrompt(call.basePrompt, call.styleParams)>>]
    /\ UNCHANGED <<now, images, blobs, nextId, nextBlob, budget, slots, req,
                 env, userDocs, login>>

\* uploadBase64Image decodes its argument and calls uploadFile, which awaits
\* file.save
UploadBase64Image ==
    /\ call.fn = "uploadBase64Image" /\ call.pc = "decode"
    /\ call' = [call EXCEPT !.pc = "save",
                            !.decoded = <<uploadBase64Image(call.base64Data)>>]
    /\ UNCHANGED <<now, images, blobs, nextId, nextBlob, budget, slots, req,
                 env, userDocs, login>>

\* both catch blocks: uploadFile throws 'File upload failed', uploadBase64Image
\* catches it and throws its own error
uploadThrows(c) == [c EXCEPT !.pc = "done", !.thrown = Base64UploadError]

\* uploadFile: file.save returns (the object is stored with the decoded bytes
\* and MIME type) or throws
UploadFileSave ==
    /\ call.fn = "uploadBase64Image" /\ call.pc = "save"
    /\ \/ /\ nextBlob' = nextBlob + 1
          /\ blobs' = storeObject(blobs,
                [path |-> filePath(call.userId, uuidv4(nextBlob), call.fileName),
                 contentType |-> call.decoded[1].mimeType, public |-> TRUE,
                 userId |-> call.userId, imageId |-> call.imageId,
                 bytes |-> call.decoded[1].buffer])
          /\ call' = [call EXCEPT !.pc = "public", !.blob = uuidv4(nextBlob)]
       \/ /\ call' = uploadThrows(call)
          /\ UNCHANGED <<blobs, nextBlob>>
    /\ UNCHANGED <<now, images, nextId, budget, slots, req,
                 env, userDocs, login>>

\* uploadFile: file.makePublic returns or throws
UploadFileMakePublic ==
    /\ call.fn = "uploadBase64Image" /\ call.pc = "public"
    /\ \/ call' = [call EXCEPT !.pc = "metadata"]
       \/ call' = uploadThrows(call)
    /\ UNCHANGED <<now, images, blobs, nextId, nextBlob, budget, slots, req,
                 env, userDocs, login>>

\* uploadFile: file.getMetadata returns, and the call returns the UploadResult
\* with the size of the stored object, or throws
UploadFileGetMetadata ==
    /\ call.fn = "uploadBase64Image" /\ call.pc = "metadata"
    /\ \/ call' = [call EXCEPT
                     !.pc = "done",
                     !.returned =
                        <<UploadResult(filePath(call.userId, call.blob,
                                                call.fileName),
                                       Len(call.decoded[1].buffer),
                                       call.decoded[1].mimeType)>>]
       \/ call' = uploadThrows(call)
    /\ UNCHANGED <<now, images, blobs, nextId, nextBlob, budget, slots, req,
                 env, userDocs, login>>

\* deleteFile is called once the upload has ended, on the path of a stored
\* object or on a path nothing is stored under, and awaits file.delete
DeleteFile ==
    /\ call.fn = "uploadBase64Image" /\ call.pc = "done"
    /\ \E path \in {b.path : b \in blobs}
                    \cup {filePath(call.userId, uuidv4(nextBlob),
                                   call.fileName)} :
         call' = [fn |-> "deleteFile", pc |-> "delete", filePath |-> path,
                  thrown |-> ""]
    /\ UNCHANGED <<now, images, blobs, nextId, nextBlob, budget, slots, req,
                 env, userDocs, login>>

\* file.delete returns, the object removed, or throws (as it does when no
\* object is stored under the path) and deleteFile throws its own error
DeleteFileReturn ==
    /\ call.fn = "deleteFile" /\ call.pc = "delete"
    /\ \/ /\ \E b \in blobs : b.path = call.filePath
          /\ blobs' = deleteObject(blobs, call.filePath)
          /\ call' = [call EXCEPT !.pc = "done"]
       \/ /\ call' = [call EXCEPT !.pc = "done", !.thrown = FileDeletionError]
          /\ UNCHANGED blobs
    /\ UNCHANGED <<now, images, nextId, nextBlob, budget, slots, req,
                 env, userDocs, login>>

CallNext ==
    \/ Tick
    \/ BuildEnhancedPrompt
    \/ UploadBase64Image
    \/ UploadFileSave
    \/ UploadFileMakePublic
    \/ UploadFileGetMetadata
    \/ DeleteFile
    \/ DeleteFileReturn
    \/ HasReachedDailyLimit
    \/ HasReachedDailyLimitReturn

CallSpec == (CallInit \/ GateInit) /\ [][CallNext]_vars

(* ------------------------------- claims -------------------------------- *)
\* the user's records created on or after the given midnight
TodayCount(coll, userId, today) ==
    Cardinality({k \in 1..Len(coll) :
        coll[k].userId = userId /\ coll[k].createdAt >= today})

Done(r) == req[r].pc = "done"
\* generateImage was called for the request: it drew its image id
Attempted(r) == req[r].imageId # 0
\* the records stored under the id of the attempt
RecordsOf(r) == Positions(images, req[r].imageId)
\* the objects the attempt stored in the bucket
ObjectsOf(r) == {b \in blobs : b.imageId = req[r].imageId}
ArtifactFields == {"gcsUrl", "gcsBucket", "gcsPath", "fileSize"}
GenericFailure ==
    [status |-> 500, image |-> <<>>,
     error |-> "Image generation failed. Please try again."]
\* the gate of request r answers in this step
GateAnswers(r) == req[r].pc = "quota_read" /\ req'[r].pc # "quota_read"

\* C1 as claimed: every terminated attempt has exactly one record under its id.
C1_Original ==
    \A r \in Reqs : Done(r) /\ Attempted(r) => Cardinality(RecordsOf(r)) = 1

\* C1 amended: a terminated attempt has exactly one record under its id, unless
\* it failed and the write of its failure record failed too: then it has none.
C1_RecordUnlessLost ==
    \A r \in Reqs : Done(r) /\ Attempted(r) =>
        Cardinality(RecordsOf(r)) = IF req[r].saved = "lost" THEN 0 ELSE 1

\* one attempt ended with its record and another ended without one
C1_Witness ==
    \E r1, r2 \in Reqs :
        /\ Done(r1) /\ Attempted(r1) /\ RecordsOf(r1) # {}
        /\ Done(r2) /\ Attempted(r2) /\ req[r2].saved = "lost"

\* C2: a record, once written, is in every later state, unchanged, and remains
\* the only record under its id.
C2_RecordsNeverChange ==
    [][\A k \in 1..Len(images) :
          /\ \E j \in 1..Len(images') : images'[j] = images[k]
          /\ Cardinality(Positions(images', images[k].id)) = 1]_vars

\* two attempts of this run have written their (failure) records
C2_Witness ==
    \E k, j \in 1..Len(images) :
        k # j /\ images[k].status = "failed" /\ images[j].status = "failed"

\* C3 as claimed, for a quota read that succeeds: a request of a user who has
\* dailyLimit records created today is answered 429 with nothing else invoked.
C3_Original ==
    [][\A r \in Reqs :
          /\ GateAnswers(r)
          /\ req'[r].read = "ok"
          /\ TodayCount(images, req[r].userId, req[r].today)
                >= maxImagesPerUserPerDay
          => /\ req'[r].pc = "done"
             /\ req'[r].resp = <<response429>>
             /\ req'[r].called = {}
             /\ images' = images /\ blobs' = blobs]_vars

\* C4 as claimed: after a model failure exactly one record, a failed one.
C4_Original ==
    \A r \in Reqs :
        Done(r) /\ Attempted(r)
        /\ (req[r].modelOutcome = "throws"
            \/ (req[r].response # <<>>
                /\ ("candidates" \notin DOMAIN req[r].response[1]
                    \/ req[r].response[1].candidates = <<>>)))
        => /\ req[r].resp = <<GenericFailure>>
           /\ "upload" \notin req[r].called /\ ObjectsOf(r) = {}
           /\ Cardinality(RecordsOf(r)) = 1
           /\ \A k \in RecordsOf(r) : images[k].status = "failed"

\* C4 amended: after a model failure the attempt fails, nothing is uploaded,
\* and the attempt has one record, a failed one, if the write of the failure
\* record succeeded and no record otherwise.
C4_ModelFailure ==
    \A r \in Reqs :
        Done(r) /\ Attempted(r)
        /\ (req[r].modelOutcome = "throws"
            \/ (req[r].response # <<>>
                /\ ("candidates" \notin DOMAIN req[r].response[1]
                    \/ req[r].response[1].candidates = <<>>)))
        => /\ req[r].resp = <<GenericFailure>>
           /\ "upload" \notin req[r].called /\ ObjectsOf(r) = {}
           /\ req[r].saved \in {"failed", "lost"}
           /\ Cardinality(RecordsOf(r)) = IF req[r].saved = "failed" THEN 1 ELSE 0
           /\ \A k \in RecordsOf(r) : images[k].status = "failed"

\* the model answered without a candidate and the failure record was written
C4_Witness ==
    \E r \in Reqs :
        /\ Done(r) /\ req[r].response = <<[candidates |-> <<>>]>>
        /\ req[r].saved = "failed" /\ RecordsOf(r) # {}

\* C5: every stored record is completed or failed; a completed record holds the
\* whole artifact reference and a failed record holds no part of it.
C5_StatusAndArtifact ==
    \A k \in 1..Len(images) :
        /\ images[k].status \in {"completed", "failed"}
        /\ images[k].status = "completed" => ArtifactFields \subseteq DOMAIN images[k]
        /\ images[k].status = "failed" => ArtifactFields \cap DOMAIN images[k] = {}

\* the object was stored, the upload failed after that, and the failure record
\* was written
C5_Witness ==
    \E r \in Reqs :
        /\ Done(r) /\ req[r].errorMessage = Base64UploadError
        /\ ObjectsOf(r) # {} /\ req[r].saved = "failed"
        /\ \E k \in RecordsOf(r) : images[k].status = "failed"

\* C6 as claimed: a quota read that succeeds answers true with exactly
\* dailyLimit records of the user created today and false with dailyLimit - 1.
C6_Original ==
    [][\A r \in Reqs :
          GateAnswers(r) /\ req'[r].read = "ok" =>
            LET n == TodayCount(images, req[r].userId, req[r].today) IN
            /\ n = maxImagesPerUserPerDay => req'[r].reached = TRUE
            /\ n = maxImagesPerUserPerDay - 1 => req'[r].reached = FALSE]_vars

\* C7: a quota read that fails answers false, and the request goes on to the
\* model call.
C7_FailOpen ==
    \A r \in Reqs :
        req[r].read = "failed" =>
            /\ req[r].reached = FALSE
            /\ "model" \in req[r].called
            /\ req[r].resp # <<response429>>

\* the read failed for a user who has dailyLimit records today, and the model
\* is being called
C7_Witness ==
    \E r \in Reqs :
        /\ req[r].read = "failed" /\ req[r].pc = "model"
        /\ TodayCount(images, req[r].userId, req[r].today)
              >= maxImagesPerUserPerDay

\* C8: the gate decides on the records stored when it reads, whatever other
\* requests of the user are in flight: with fewer than dailyLimit records of
\* the user stored today, the request goes on to generation.
C8_GateIgnoresInFlight ==
    [][\A r \in Reqs :
          /\ GateAnswers(r)
          /\ TodayCount(images, req[r].userId, req[r].today)
                < maxImagesPerUserPerDay
          => req'[r].pc = "model"]_vars

\* two concurrent requests of one user both passed a successful quota read and
\* both wrote a record, and the user has more than dailyLimit records today
C8_Witness ==
    /\ slots = 2
    /\ \E u \in Users :
        /\ TodayCount(images, u, StartOfDay(now)) > maxImagesPerUserPerDay
        /\ \A r \in Reqs :
            /\ Done(r) /\ req[r].userId = u /\ req[r].read = "ok"
            /\ req[r].saved \in {"completed", "failed"}

\* C9: when the write of the failure record fails, generateImage throws the
\* same error, and the controller gives the same answer, as when it succeeds,
\* and no record of the attempt is stored.
C9_SecondaryFaultHidden ==
    \A r \in Reqs :
        Done(r) /\ req[r].saved \in {"failed", "lost"} =>
            /\ req[r].thrown = GenerationFailedError
            /\ req[r].resp = <<GenericFailure>>
            /\ req[r].saved = "lost" => RecordsOf(r) = {}

\* the model threw and the write of the failure record failed
C9_Witness ==
    \E r \in Reqs :
        /\ Done(r) /\ req[r].modelOutcome = "throws" /\ req[r].saved = "lost"
        /\ req[r].resp = <<GenericFailure>>

\* C10 as claimed: after a failed write of the completed record no record of
\* the attempt exists.
C10_Original ==
    \A r \in Reqs :
        Done(r) /\ req[r].errorMessage = DbError =>
            /\ req[r].resp = <<GenericFailure>>
            /\ ObjectsOf(r) # {}
            /\ RecordsOf(r) = {}

\* C10 amended: after a failed write of the completed record the attempt fails,
\* the stored object stays, no completed record of the attempt exists, and a
\* failed record of it exists exactly when the write of the failure record,
\* which the catch block then tries, succeeded.
C10_OrphanedArtifact ==
    \A r \in Reqs :
        Done(r) /\ req[r].errorMessage = DbError =>
            /\ req[r].resp = <<GenericFailure>>
            /\ \E b \in ObjectsOf(r) : b.path = req[r].upload[1].path
            /\ \A k \in RecordsOf(r) :
                  /\ images[k].status = "failed"
                  /\ ArtifactFields \cap DOMAIN images[k] = {}
            /\ RecordsOf(r) # {} <=> req[r].saved = "failed"

\* the write of the completed record failed and the failure record was written
C10_Witness ==
    \E r \in Reqs :
        /\ Done(r) /\ req[r].errorMessage = DbError /\ req[r].saved = "failed"
        /\ RecordsOf(r) # {} /\ ObjectsOf(r) # {}

\* the step at which a failed attempt failed
FailedStep(r) ==
    IF req[r].errorMessage \in ModelErrors \cup {NoCandidateError} THEN "model"
    ELSE IF req[r].errorMessage = Base64UploadError THEN "upload"
    ELSE IF req[r].errorMessage = DbError THEN "write"
    ELSE "none"
\* the attempt of the request ended in a failure
Failed(r) == Done(r) /\ req[r].saved \in {"failed", "lost"}

\* C11 as claimed: two attempts that failed at different steps (model call,
\* upload, final record write) end with failures the caller can tell apart.
C11_Original ==
    \A r1, r2 \in Reqs :
        Failed(r1) /\ Failed(r2) /\ FailedStep(r1) # FailedStep(r2) =>
            \/ req[r1].thrown # req[r2].thrown
            \/ req[r1].resp # req[r2].resp

\* the messages of the errors thrown by the external services, as opposed to
\* the fixed messages of the program's own errors
UpstreamMessages == ModelErrors \cup {DbError}
\* the records a response lets the caller read
RecordsRead(response) ==
    IF "images" \in DOMAIN response
    THEN {response.images[k] : k \in 1..Len(response.images)}
    ELSE IF response.status = 200 /\ "image" \in DOMAIN response
    THEN {response.image}
    ELSE {}

\* C12 as claimed: nothing the caller observes depends on the message of an
\* upstream error: neither the error of a response nor a record read back
\* through history or get-by-id carries such a message.
C12_Original ==
    \A r \in Reqs :
        Done(r) =>
            /\ req[r].resp[1].error \notin UpstreamMessages
            /\ \A rec \in RecordsRead(req[r].resp[1]) :
                  "errorMessage" \in DOMAIN rec
                  => rec.errorMessage \notin UpstreamMessages

\* C13: the model has been called exactly once in every attempt, from the call
\* on, whatever the call answers, and never in a request that did not get past
\* the quota gate.
C13_ModelCalledOnce ==
    \A r \in Reqs :
        /\ Attempted(r) => req[r].modelCalls = 1
        /\ ~Attempted(r) => req[r].modelCalls = 0 /\ "model" \notin req[r].called
        /\ req[r].resp = <<response429>> => ~Attempted(r)

\* one attempt ended after its model call threw, another after an empty
\* response, each with one call
C13_Witness ==
    \E r1, r2 \in Reqs :
        /\ Failed(r1) /\ req[r1].modelOutcome = "throws"
        /\ req[r1].modelCalls = 1
        /\ Failed(r2) /\ req[r2].response = <<[candidates |-> <<>>]>>
        /\ req[r2].modelCalls = 1

\* the clause the claim gives for a field of the style parameters
C14_Clause(sp, f) ==
    IF f = "style" THEN <<"in ">> \o sp[f] \o <<" style">>
    ELSE IF f = "colorScheme" THEN <<"with ">> \o sp[f] \o <<" color scheme">>
    ELSE sp[f] \o <<" mood">>
\* the clauses the claim lists, in its order; a field that is missing or holds
\* the empty string gives none
C14_Clauses(styleParams) ==
    IF styleParams = <<>> THEN <<>>
    ELSE LET sp == styleParams[1]
             Of(f) == IF f \in DOMAIN sp /\ sp[f] # <<>>
                      THEN <<C14_Clause(sp, f)>> ELSE <<>>
         IN  Of("style") \o Of("colorScheme") \o Of("mood")
             \o (IF "modifiers" \in DOMAIN sp THEN sp.modifiers ELSE <<>>)
\* a list of clauses, each preceded by ", "
RECURSIVE C14_Appended(_)
C14_Appended(clauses) ==
    IF clauses = <<>> THEN <<>>
    ELSE <<", ">> \o Head(clauses) \o C14_Appended(Tail(clauses))

\* C14: buildEnhancedPrompt returns the base prompt followed, for each clause
\* of the fixed-order list (style, color scheme, mood, then the modifiers as
\* given), by ", " and the clause; with no clause it returns the base prompt.
C14_EnhancedPrompt ==
    call.fn = "buildEnhancedPrompt" /\ call.returned # <<>> =>
        /\ call.returned[1]
             = call.basePrompt \o C14_Appended(C14_Clauses(call.styleParams))
        /\ C14_Clauses(call.styleParams) = <<>>
             => call.returned[1] = call.basePrompt

\* the call with all three string fields set and two modifiers has returned
C14_Witness ==
    /\ call.fn = "buildEnhancedPrompt" /\ call.returned # <<>>
    /\ call.styleParams # <<>>
    /\ DOMAIN call.styleParams[1] = StyleFields
    /\ call.styleParams[1].style # <<>>
    /\ call.styleParams[1].colorScheme # <<>>
    /\ call.styleParams[1].mood # <<>>
    /\ Len(call.styleParams[1].modifiers) = 2
    /\ Len(call.returned[1]) > Len(call.basePrompt)

\* C15 as claimed: two calls in a row for the same user, with no write between
\* them, give the same answer. It fails when the read of one of the calls
\* throws, which that call answers with false, and when midnight passes
\* between the calls.
C15_Original ==
    call.fn = "hasReachedDailyLimit" /\ Len(call.answers) = 2 =>
        call.answers[1].reached = call.answers[2].reached

\* the count hasReachedDailyLimit compares with the limit
GateCount(coll, userId, today) ==
    Len(todayImages(findMany(coll, userId, maxImagesPerUserPerDay + 1), today))

\* C16 as claimed: whenever the gate reads, the count it compares with the
\* limit is the number of the user's records created at or after the midnight
\* it computed, of either status, and of no record created before.
C16_Original ==
    \A r \in Reqs :
        req[r].pc = "quota_read" =>
            GateCount(images, req[r].userId, req[r].today)
              = Cardinality({k \in 1..Len(images) :
                    /\ images[k].userId = req[r].userId
                    /\ images[k].status \in {"completed", "failed"}
                    /\ images[k].createdAt >= req[r].today})

\* C17: an attempt without style parameters whose model call, upload and
\* record write all succeeded has exactly one record, which is completed, has
\* a non-empty artifact URL and has the configured default dimensions.
C17_ScenarioA ==
    \A r \in Reqs :
        Done(r) /\ req[r].styleParams = <<>> /\ req[r].saved = "completed" =>
            /\ Cardinality(RecordsOf(r)) = 1
            /\ \A k \in RecordsOf(r) :
                  /\ images[k].status = "completed"
                  /\ images[k].gcsUrl # <<>>
                  /\ images[k].dimensions
                       = [width |-> defaultWidth, height |-> defaultHeight]

\* the request with prompt "sunset" and no style parameters was answered 201
\* and its record is stored
C17_Witness ==
    \E r \in Reqs :
        /\ Done(r) /\ req[r].given = <<sunset>> /\ req[r].styleParams = <<>>
        /\ req[r].modelOutcome = "returns" /\ req[r].saved = "completed"
        /\ req[r].resp[1].status = 201
        /\ \E k \in RecordsOf(r) : images[k].prompt = sunset

\* C18 as claimed: an input data:<mime>;base64,<payload>, with a MIME type and
\* a payload, is decoded to that MIME type and the bytes of the payload; an
\* input that does not begin with data: is decoded whole, as image/png.
C18_Original ==
    call.fn = "uploadBase64Image" /\ call.returned # <<>> =>
        \E b \in blobs :
            /\ b.path = call.returned[1].path
            /\ b.contentType = call.returned[1].mimeType
            /\ (/\ call.prefix = DataPrefix /\ call.marker = Base64Marker
                /\ call.mime # <<>> /\ call.payload # <<>>)
               => /\ call.returned[1].mimeType = call.mime
                  /\ b.bytes = bufferFromBase64(call.payload)
            /\ ~startsWith(call.base64Data, DataPrefix)
               => /\ call.returned[1].mimeType = imagePng
                  /\ b.bytes = bufferFromBase64(call.base64Data)

\* the handler takes a generate request in this step
Received(r) ==
    /\ req[r].pc \in {"idle", "done"}
    /\ req'[r] # req[r]
    /\ req'[r].route = "generate"
\* the prompt of the request is missing or empty after trimming
NoPrompt(q) ==
    q.given = <<>> \/ \A k \in 1..Len(q.given[1]) : q.given[1][k] \in WhiteSpace

\* C19: a generate request without a prompt, or with one that is empty after
\* trimming (white space and line terminators), is answered with a 4xx status
\* in the step that receives it, and with the 400 of the validation when its
\* caller is authenticated: no quota read is issued, generateImage is not
\* called, and nothing is written.
C19_RejectedBeforeGate ==
    [][\A r \in Reqs :
          Received(r) /\ NoPrompt(req'[r]) =>
             /\ req'[r].pc = "done"
             /\ req'[r].resp[1].status \in 400..499
             /\ req'[r].userId # Anonymous =>
                   /\ req'[r].resp[1].status = 400
                   /\ req'[r].resp[1].error = "Validation failed"
             /\ req'[r].read = "none" /\ req'[r].called = {}
             /\ req'[r].modelCalls = 0 /\ ~Attempted(r)'
             /\ images' = images /\ blobs' = blobs
             /\ nextId' = nextId /\ nextBlob' = nextBlob]_vars

\* a request with a blank prompt was rejected by the validation while an
\* attempt of the same user was in flight
C19_Witness ==
    \E r1, r2 \in Reqs :
        /\ Done(r1) /\ req[r1].route = "generate"
        /\ req[r1].given = <<blank>>
        /\ req[r1].resp[1].status = 400
        /\ req[r1].resp[1].error = "Validation failed"
        /\ req[r2].pc = "model" /\ req[r2].userId = req[r1].userId

\* C20: a request in the first handler whose external calls all return or
\* throw in the end is answered in the end, whether or not the calls of the
\* request in the other handler ever return.
C20_Terminates ==
    (req[1].pc \notin {"idle", "done"}) ~> (req[1].pc = "done")

\* the attempt in the first handler has ended while the request that arrived
\* after it is still waiting for its quota read
C20_Witness ==
    /\ Done(1) /\ Attempted(1) /\ req[1].saved = "completed"
    /\ req[2].pc = "quota_read"

\* the objects stored under the image id of an attempt
ObjectsUnder(bucket, imageId) == {b \in bucket : b.imageId = imageId}
\* the records of a collection
RecordSet(coll) == {coll[k] : k \in 1..Len(coll)}

\* C21: in every state an attempt reaches, the upload was invoked only after
\* the model returned a candidate, the completed record is written only after
\* the upload returned, and a result exists only with the completed record
\* written; and from the failure of a step on, the attempt only writes its
\* failure record: it stores no object and writes no completed record.
C21_StepOrder ==
    [][\A r \in Reqs :
          LET q == req'[r] IN
          /\ "upload" \in q.called =>
                /\ q.modelOutcome = "returns"
                /\ "candidates" \in DOMAIN q.response[1]
                /\ Len(q.response[1].candidates) > 0
          /\ q.pc = "save_completed" \/ q.saved = "completed" =>
                "upload" \in q.called /\ q.upload # <<>>
          /\ q.result # <<>> =>
                /\ q.saved = "completed"
                /\ \E k \in Positions(images', q.imageId) :
                      images'[k].status = "completed"
          /\ req[r].pc = "save_failed" =>
                /\ q.pc \in {"save_failed", "done"}
                /\ q.saved # "completed" /\ q.result = <<>>
                /\ ObjectsUnder(blobs', req[r].imageId)
                     = ObjectsUnder(blobs, req[r].imageId)
                /\ \A k \in Positions(images', req[r].imageId) :
                      images'[k].status = "failed"]_vars

\* one attempt went through all its steps and returned a result
C21_Witness ==
    \E r \in Reqs :
        /\ Done(r) /\ req[r].result # <<>>
        /\ req[r].called = {"model", "upload", "create"}
        /\ req[r].resp[1].status = 201

\* C22: the image id is drawn by the time the model is called and stays the
\* same for the whole attempt; a step in which the attempt writes a record
\* adds exactly one record, keyed by that id; the result and the response
\* name that id.
C22_OneId ==
    [][\A r \in Reqs :
          LET q == req'[r] IN
          /\ q.modelCalls > 0 => q.imageId # 0
          /\ req[r].imageId # 0 /\ req[r].pc # "done" =>
                q.imageId = req[r].imageId
          /\ req[r].saved = "none" /\ q.saved \in {"completed", "failed"} =>
                /\ Cardinality(RecordSet(images') \ RecordSet(images)) = 1
                /\ \A rec \in RecordSet(images') \ RecordSet(images) :
                      rec.id = q.imageId /\ rec.status = q.saved
          /\ q.result # <<>> =>
                /\ q.result[1].imageId = q.imageId
                /\ q.resp[1].image[1].id = q.imageId]_vars

\* two attempts, one completed and one failed, each with a record under its
\* own id
C22_Witness ==
    \E r1, r2 \in Reqs :
        /\ Done(r1) /\ req[r1].saved = "completed"
        /\ \E k \in RecordsOf(r1) : images[k].status = "completed"
        /\ Done(r2) /\ req[r2].saved = "failed"
        /\ \E k \in RecordsOf(r2) : images[k].status = "failed"
        /\ req[r1].imageId # req[r2].imageId


\* the dimensions a request asks for: the width and the height its style
\* parameters give, each on its own, the default where one is not given
RequestedDimensions(styleParams) ==
    LET given(f) == /\ styleParams # <<>>
                    /\ "dimensions" \in DOMAIN styleParams[1]
                    /\ f \in DOMAIN styleParams[1].dimensions
    IN  [width  |-> IF given("width") THEN styleParams[1].dimensions.width
                    ELSE defaultWidth,
         height |-> IF given("height") THEN styleParams[1].dimensions.height
                    ELSE defaultHeight]

\* C23: the dimensions in the completed record, in the result and in the
\* response are the width and the height the style parameters give, and the
\* default for each one they do not give.
C23_Dimensions ==
    \A r \in Reqs :
        req[r].result # <<>> =>
            LET want == RequestedDimensions(req[r].styleParams) IN
            /\ req[r].result[1].dimensions = want
            /\ req[r].resp[1].image[1].dimensions = want
            /\ \A k \in RecordsOf(r) : images[k].dimensions = want

\* a request that gave only the width got the default height
C23_Witness ==
    \E r \in Reqs :
        /\ req[r].result # <<>> /\ RecordsOf(r) # {}
        /\ req[r].styleParams # <<>>
        /\ "dimensions" \in DOMAIN req[r].styleParams[1]
        /\ DOMAIN req[r].styleParams[1].dimensions = {"width"}
        /\ req[r].result[1].dimensions = [width |-> 512, height |-> defaultHeight]

\* the fields a stored record can have
RecordFields ==
    {"id", "userId", "prompt", "styleParams", "gcsUrl", "gcsBucket", "gcsPath",
     "fileSize", "mimeType", "dimensions", "status", "errorMessage",
     "createdAt", "updatedAt"}

\* C24: the records of an attempt, its result and its response hold the prompt
\* and the style parameters generateImage was called with; the enhanced prompt,
\* which is what the model was called with, is in none of them.
C24_OriginalKept ==
    \A r \in Reqs :
        Attempted(r) =>
            LET q == req[r] IN
            /\ q.sent = buildEnhancedPrompt(q.prompt, q.styleParams)
            /\ \A k \in RecordsOf(r) :
                  /\ images[k].prompt = q.prompt
                  /\ images[k].styleParams = q.styleParams
                  /\ DOMAIN images[k] \subseteq RecordFields
            /\ q.result # <<>> =>
                  /\ q.result[1].prompt = q.prompt
                  /\ q.result[1].styleParams = q.styleParams
                  /\ q.resp[1].image[1].prompt = q.prompt
                  /\ q.resp[1].image[1].styleParams = q.styleParams

\* a completed attempt whose enhanced prompt differs from the original
C24_Witness ==
    \E r \in Reqs :
        /\ Done(r) /\ req[r].result # <<>>
        /\ req[r].sent # req[r].prompt
        /\ \E k \in RecordsOf(r) : images[k].prompt = req[r].prompt


\* the calls of the model made for the one user of a run that started with no
\* record: every attempt draws one image id and calls the model once
ModelCallsToday == nextId

\* C25 as claimed: with the requests of one user handled one at a time and no
\* quota read failing, the model is called at most dailyLimit times on one
\* day, whatever writes fail.
C25_Original ==
    slots = 1 => ModelCallsToday <= maxImagesPerUserPerDay

\* C26: with no quota read failing, every record write succeeding and all
\* records of the user created today, a user with at most K requests in
\* flight never has more than dailyLimit + K - 1 records of today.
C26_Overshoot ==
    env.writes = {TRUE} =>
        TodayCount(images, SeedUser, StartOfDay(now))
            <= maxImagesPerUserPerDay + slots - 1

\* two requests in flight took the user one record above the limit
C26_Witness ==
    /\ env.writes = {TRUE} /\ slots = 2
    /\ Len(images) = maxImagesPerUserPerDay + slots - 1
    /\ TodayCount(images, SeedUser, StartOfDay(now)) = Len(images)


\* C27 as claimed: after a failed attempt no object stored by the attempt is
\* in the bucket.
C27_Original ==
    \A r \in Reqs : Failed(r) => ObjectsOf(r) = {}

\* C27 amended: after a failed attempt the bucket holds an object of the
\* attempt exactly when its file.save had succeeded (nothing deletes it), and
\* no record refers to that object.
C27_UnreferencedObject ==
    \A r \in Reqs :
        Failed(r) =>
            /\ ObjectsOf(r) # {} <=> req[r].blob # 0
            /\ \A b \in ObjectsOf(r) :
                  /\ b.path = filePath(req[r].userId, req[r].blob,
                                       generatedFileName(req[r].imageId))
                  /\ \A k \in 1..Len(images) :
                        "gcsPath" \in DOMAIN images[k] => images[k].gcsPath # b.path
            /\ \A k \in RecordsOf(r) :
                  ArtifactFields \cap DOMAIN images[k] = {}

\* the upload failed after file.save had stored the object, and the failure
\* record was lost: the object is all that is left of the attempt
C27_Witness ==
    \E r \in Reqs :
        /\ Failed(r) /\ req[r].upload = <<>> /\ req[r].saved = "lost"
        /\ ObjectsOf(r) # {} /\ RecordsOf(r) = {}


\* C28: when generateImage has returned a result, a completed record is stored
\* under the returned image id, its URL is the returned URL, and the bucket
\* holds the object at the record's path, which lies under
\* users/{userId}/images/.
C28_ResultIsStored ==
    \A r \in Reqs :
        req[r].result # <<>> =>
            \E k \in 1..Len(images) :
                /\ images[k].id = req[r].result[1].imageId
                /\ images[k].status = "completed"
                /\ images[k].userId = req[r].userId
                /\ images[k].gcsUrl = req[r].result[1].imageUrl
                /\ \E b \in blobs : b.path = images[k].gcsPath
                /\ SubSeq(images[k].gcsPath, 1, 3)
                     = <<"users/", req[r].userId, "/images/">>

\* a result was returned to a user who had no record before
C28_Witness ==
    \E r \in Reqs :
        /\ Done(r) /\ req[r].result # <<>> /\ req[r].userId # SeedUser
        /\ \E k \in RecordsOf(r) :
              /\ images[k].gcsUrl = req[r].result[1].imageUrl
              /\ \E b \in blobs : b.path = images[k].gcsPath


\* the handler of request r answers a read route in this step
ReadAnswers(r) ==
    req[r].pc \in {"images_query", "images_get"} /\ req'[r].pc = "done"

\* C29: a read route never answers with a record of another user. The answer
\* of get-by-id is 404 exactly when no record has the id, 403 exactly when the
\* record belongs to another user, and the record itself exactly when it
\* belongs to the requester (or 500 when the read failed); the history holds
\* stored records of the requester only.
C29_OwnRecordsOnly ==
    [][\A r \in Reqs :
          ReadAnswers(r) =>
            LET q == req'[r]
                a == q.resp[1]
                found == findById(images, q.wanted)
            IN  /\ q.route = "image" =>
                    /\ a.status \in {200, 403, 404, 500}
                    /\ a.status = 404 <=> a = imageNotFound
                    /\ a.status = 403 <=> a = imageForbidden
                    /\ a.status # 500 =>
                          /\ a.status = 404 <=> found = <<>>
                          /\ a.status = 403 <=>
                                found # <<>> /\ found[1].userId # q.userId
                          /\ a.status = 200 <=>
                                found # <<>> /\ found[1].userId = q.userId
                    /\ a.status = 200 =>
                          a.image = found[1] /\ a.image.userId = q.userId
                /\ q.route = "history" =>
                    /\ a.status \in {200, 500}
                    /\ a.status = 200 =>
                          \A k \in 1..Len(a.images) :
                              /\ a.images[k].userId = q.userId
                              /\ a.images[k] \in RecordSet(images)]_vars

\* a user asked for a record of another user and was answered 403
C29_Witness ==
    \E r \in Reqs :
        /\ Done(r) /\ req[r].route = "image" /\ req[r].userId # SeedUser
        /\ req[r].resp = <<imageForbidden>>
        /\ \E k \in Positions(images, req[r].wanted) :
              images[k].userId = SeedUser


\* the documents of the users collection with a Google id
UserDocsOf(googleId) ==
    {k \in 1..Len(userDocs) : userDocs[k].googleId = googleId}

\* C30: whatever the interleaving of the logins (and of the calls that mark a
\* user deleted, rewrite the last login or remove a document), the users
\* collection holds at most one document with a given Google id, stored under
\* that id; in a run in which no document is removed it holds one as soon as
\* a login of the account has succeeded.
C30_OneUserDocument ==
    \A g \in GoogleIds :
        /\ Cardinality(UserDocsOf(g)) <= 1
        /\ \A k \in UserDocsOf(g) : userDocs[k].id = g
        /\ (/\ "delete" \notin env.calls
            /\ \E p \in Logins :
                  /\ login[p].googleId = g
                  /\ login[p].outcome \in {"created", "updated"})
           => Cardinality(UserDocsOf(g)) = 1

\* two first logins of one account under different display names both found
\* no user and both wrote the document
C30_Witness ==
    \E p1, p2 \in Logins :
        /\ p1 # p2 /\ login[p1].googleId = login[p2].googleId
        /\ login[p1].outcome = "created" /\ login[p2].outcome = "created"
        /\ login[p1].name # login[p2].name
        /\ "delete" \notin env.calls
        /\ Cardinality(UserDocsOf(login[p1].googleId)) = 1

====
